---------------------------- MODULE Spec2Model ----------------------------
(***************************************************************************)
(* Event Registration Dashboard (src/app.py).                              *)
(*                                                                         *)
(* One run of the dashboard script, top to bottom: the uploaded CSV is     *)
(* read, normalised by preprocess_data, filtered by the sidebar selection, *)
(* and then the key metrics and the four tabs are computed.  Every place   *)
(* where the script stops (st.stop) or raises is a separate action.        *)
(*                                                                         *)
(* Cell values.  read_csv turns an empty field into NaN, so a missing      *)
(* value is the empty text: "" for the atomic text columns and <<>> for    *)
(* the columns whose characters matter ('Year of Study', 'Registered       *)
(* Events'), which are sequences of one-character strings.  'Created At'   *)
(* is a record: a timestamp with a UTC offset, unparseable text, or        *)
(* missing.  Dates are day numbers, date-times are hours since day 0.      *)
(***************************************************************************)
EXTENDS Integers, Sequences, FiniteSets, TLC

VARIABLES
    pc,                  \* position of the script run
    message,             \* the st.info / st.error / st.warning shown, or the exception
    uploaded_file,       \* the file_uploader value
    df_raw,              \* the table read_csv returned
    df,                  \* the table preprocess_data returned
    selected_colleges,   \* sidebar multiselect
    selected_years,      \* sidebar multiselect
    selected_date_range, \* sidebar date_input: a tuple of one or two dates
    df_filtered,
    kpi,                 \* the metrics rendered so far
    daily_registrations,
    college_counts,
    year_counts,
    gender_counts,
    degree_counts,
    events_exploded,
    event_counts,
    event_summary_df,
    selected_event,
    college_interest,
    csv,
    df_completed,
    rendered             \* the widgets drawn so far in this run

vars == <<pc, message, uploaded_file, df_raw, df, selected_colleges,
          selected_years, selected_date_range, df_filtered, kpi,
          daily_registrations, college_counts, year_counts, gender_counts,
          degree_counts, events_exploded, event_counts, event_summary_df,
          selected_event, college_interest, csv, df_completed, rendered>>

(***************************************************************************)
(* Bounds of the model.                                                    *)
(***************************************************************************)
\* Longest uploaded file, in lines, drawn from the curated lines below.
MaxRows == 3
\* Longest uploaded file that starts with a byte-order mark.
MaxBomRows == 1
\* Most options the user removes from one sidebar multiselect.
MaxDeselect == 2

(***************************************************************************)
(* Program constants.                                                      *)
(***************************************************************************)
\* nlargest(10)
TopN == 10
HoursPerDay == 24

\* NaN / None in a text column (an empty CSV field).
NULL == ""
\* NaT: what to_datetime(errors='coerce') gives for an unparseable value.
NaT == -1
\* "nothing rendered / not computed yet"
None == <<>>

Min(a, b) == IF a < b THEN a ELSE b

RECURSIVE SeqSum(_)
SeqSum(s) == IF s = <<>> THEN 0 ELSE Head(s) + SeqSum(Tail(s))

\* Concatenation of a sequence of sequences (DataFrame.explode).
RECURSIVE Flatten(_)
Flatten(ss) == IF ss = <<>> THEN <<>> ELSE Head(ss) \o Flatten(Tail(ss))

(***************************************************************************)
(* pd.to_datetime(..., errors='coerce', utc=True) and .dt.date             *)
(***************************************************************************)
\* The calendar date (UTC) of a date-time: the time of day is cut off.
dt_date(h) == h \div HoursPerDay

(***************************************************************************)
(* pd.to_numeric(..., errors='coerce'), .astype(int), .astype(str)         *)
(***************************************************************************)
Digit == {"0", "1", "2", "3", "4", "5", "6", "7", "8", "9"}

DigitVal(ch) ==
    CASE ch = "0" -> 0 [] ch = "1" -> 1 [] ch = "2" -> 2 [] ch = "3" -> 3
      [] ch = "4" -> 4 [] ch = "5" -> 5 [] ch = "6" -> 6 [] ch = "7" -> 7
      [] ch = "8" -> 8 [] ch = "9" -> 9

DigitChar(d) == <<"0", "1", "2", "3", "4", "5", "6", "7", "8", "9">>[d + 1]

IsDigits(s) == Len(s) > 0 /\ \A i \in 1..Len(s) : s[i] \in Digit

RECURSIVE DigitsVal(_)
DigitsVal(s) ==
    IF s = <<>> THEN 0
    ELSE DigitsVal(SubSeq(s, 1, Len(s) - 1)) * 10 + DigitVal(s[Len(s)])

\* Position of the first "." in s, or 0.
DotPos(s) ==
    IF \E i \in 1..Len(s) : s[i] = "."
    THEN CHOOSE i \in 1..Len(s) : s[i] = "." /\ \A j \in 1..(i - 1) : s[j] # "."
    ELSE 0

NaN == [nan |-> TRUE, neg |-> FALSE, whole |-> 0, frac |-> FALSE]

\* An unsigned decimal literal: digits, or digits "." digits.
UnsignedNumeric(s) ==
    LET p == DotPos(s) IN
    IF p = 0
    THEN IF IsDigits(s)
         THEN [nan |-> FALSE, neg |-> FALSE, whole |-> DigitsVal(s), frac |-> FALSE]
         ELSE NaN
    ELSE LET w == SubSeq(s, 1, p - 1)
             f == SubSeq(s, p + 1, Len(s))
         IN IF IsDigits(w) /\ IsDigits(f)
            THEN [nan |-> FALSE, neg |-> FALSE, whole |-> DigitsVal(w),
                  frac |-> DigitsVal(f) # 0]
            ELSE NaN

\* The float a cell text parses to: a missing cell and non-numeric text are NaN.
\* whole is the integer part of the magnitude, frac whether a fraction is left.
to_numeric(s) ==
    IF s = <<>> THEN NaN
    ELSE IF Head(s) = "-"
         THEN LET u == UnsignedNumeric(Tail(s)) IN
              IF u.nan THEN NaN ELSE [u EXCEPT !.neg = TRUE]
         ELSE UnsignedNumeric(s)

\* read_csv types a column whose cells are all numeric texts or empty as numbers;
\* one cell of other text leaves every cell of the column a string.
IsNumberColumn(t) ==
    \A i \in DOMAIN t :
        /\ t[i].CreatedAt.kind \in {"text", "missing"}
        /\ t[i].CreatedAt.kind = "text" => ~to_numeric(t[i].CreatedAt.text).nan

\* A timestamp text with a UTC offset denotes the instant hour - off on its day.
\* A number counts nanoseconds from the epoch, which is within hour 0 of day 0.
\* Anything else (other text, a short numeric string, a missing cell) is
\* coerced to NaT.
to_datetime(c, numbers) ==
    IF c.kind = "ts" THEN c.day * HoursPerDay + c.hour - c.off
    ELSE IF c.kind = "text" /\ numbers THEN 0
    ELSE NaT

\* float -> int: the fraction is cut off (towards zero).
astype_int(x) == IF x.neg THEN 0 - x.whole ELSE x.whole

RECURSIVE NatStr(_)
NatStr(n) == IF n < 10 THEN <<DigitChar(n)>> ELSE NatStr(n \div 10) \o <<DigitChar(n % 10)>>

\* int -> str
astype_str(n) == IF n < 0 THEN <<"-">> \o NatStr(0 - n) ELSE NatStr(n)

(***************************************************************************)
(* pd.read_csv(..., on_bad_lines='skip') and the BOM clean-up              *)
(***************************************************************************)
\* A text cell standing in a column of names: a missing cell or the text whole.
AsText(name) == IF name = NULL THEN <<>> ELSE <<name>>

\* The event text standing in a column of names.
AsName(ev) ==
    CASE ev = <<>> -> NULL
      [] ev = <<"A">> -> "A"
      [] ev = <<"B">> -> "B"
      [] ev = <<"C", ";">> -> "C;"
      [] ev = <<"A", ";", "B", ";", " ", "A">> -> "A;B; A"

\* A year text standing in the 'Created At' column.
AsCreatedAt(y) ==
    IF y = <<>> THEN [kind |-> "missing", day |-> 0, hour |-> 0, off |-> 0, text |-> <<>>]
    ELSE [kind |-> "text", day |-> 0, hour |-> 0, off |-> 0, text |-> y]

\* A line read with its first field as the row label: every field stands one
\* column to the left, the ninth field of an over-long line under 'Teams', and
\* 'Teams' is missing on a line of eight fields.
Shifted(l) ==
    [CreatedAt |-> AsCreatedAt(l.row.YearOfStudy),
     YearOfStudy |-> AsText(l.row.CollegeName),
     CollegeName |-> l.row.Gender,
     Gender |-> l.row.Degree,
     Degree |-> l.row.FirstName,
     FirstName |-> AsName(l.row.RegisteredEvents),
     RegisteredEvents |-> AsText(l.row.Teams),
     Teams |-> IF l.bad THEN l.extra ELSE NULL]

\* The field count is tested from the second data line on.  When the first data
\* line has one field more than the header, the first column becomes the index
\* and every line is read shifted, the over-long ones included.  Otherwise a
\* line whose field count exceeds the header's is skipped; the others are rows.
read_csv(content) ==
    IF content.lines # <<>> /\ Head(content.lines).bad
    THEN [i \in DOMAIN content.lines |-> Shifted(content.lines[i])]
    ELSE LET good == SelectSeq(content.lines, LAMBDA l : ~l.bad)
         IN [i \in DOMAIN good |-> good[i].row]

\* df_raw.columns.str.replace('\ufeff', ''): the header names without the mark.
strip_bom(columns) == [i \in DOMAIN columns |-> [columns[i] EXCEPT !.bom = FALSE]]

(***************************************************************************)
(* preprocess_data                                                         *)
(***************************************************************************)
WithCreatedAt(t) ==
    LET numbers == IsNumberColumn(t)
    IN [i \in DOMAIN t |-> [t[i] EXCEPT !.CreatedAt = to_datetime(@, numbers)]]

WithRegistrationDate(t) ==
    [i \in DOMAIN t |-> [RegistrationDate |-> dt_date(t[i].CreatedAt)] @@ t[i]]

\* The numeric year is held in the column until the rows without one are dropped.
WithYearNumeric(t) ==
    [i \in DOMAIN t |-> [YearOfStudyCleaned |-> to_numeric(t[i].YearOfStudy)] @@ t[i]]

WithYearLabel(t) ==
    [i \in DOMAIN t |->
        [t[i] EXCEPT !.YearOfStudyCleaned = astype_str(astype_int(@))]]

\* A preprocess_data without the dropna on 'Created At'.
DropNaT_keepall(t) == t

DropNaT(t) == SelectSeq(t, LAMBDA r : r.CreatedAt # NaT)

DropYearNaN(t) == SelectSeq(t, LAMBDA r : ~r.YearOfStudyCleaned.nan)

\* The steps of lines 16-22, in order.
preprocess_data(raw) ==
    WithYearLabel(DropYearNaN(WithYearNumeric(WithRegistrationDate(DropNaT(WithCreatedAt(raw))))))


(***************************************************************************)
(* The uploads the model draws from.                                       *)
(***************************************************************************)
Ts(d, h, o) == [kind |-> "ts", day |-> d, hour |-> h, off |-> o, text |-> <<>>]
Garbage == [kind |-> "garbage", day |-> 0, hour |-> 0, off |-> 0, text |-> <<>>]
Missing == [kind |-> "missing", day |-> 0, hour |-> 0, off |-> 0, text |-> <<>>]

Row(c, y, col, g, deg, fn, ev, tm) ==
    [CreatedAt |-> c, YearOfStudy |-> y, CollegeName |-> col, Gender |-> g,
     Degree |-> deg, FirstName |-> fn, RegisteredEvents |-> ev, Teams |-> tm]

Good(r) == [bad |-> FALSE, row |-> r, extra |-> NULL]

Ev_ABA == <<"A", ";", "B", ";", " ", "A">>
Ev_B == <<"B">>
Ev_C_ == <<"C", ";">>

\* Rows that pass normalisation.  K2's and K3's local dates differ from their
\* UTC dates; K3 has no gender and no team; K4 names no event; K5 has no college
\* and no first name.
K1 == Row(Ts(1, 10, 0), <<"2">>, "Zeta", "F", "CSE", "Asha", Ev_ABA, "T1")
K2 == Row(Ts(1, 23, -5), <<"3">>, "Alpha", "M", "ECE", "Ravi", Ev_B, "T2")
K3 == Row(Ts(2, 3, 5), <<"2", ".", "5">>, "Zeta", NULL, NULL, "Mira", Ev_C_, NULL)
K4 == Row(Ts(2, 10, 0), <<"3">>, "Alpha", "M", "CSE", "Kiran", <<>>, NULL)
K5 == Row(Ts(3, 10, 0), <<"0">>, NULL, "F", "ECE", NULL, Ev_B, "T1")
\* Rows that normalisation drops.
D1 == Row(Garbage, <<"2">>, "Zeta", "F", "CSE", "Dev", Ev_B, "T1")
D2 == Row(Missing, <<"3">>, "Alpha", "M", "ECE", "Esha", Ev_B, "T2")
D3 == Row(Ts(1, 10, 0), <<"t", "w", "o">>, "Zeta", "F", "CSE", "Farid", Ev_B, "T1")
D4 == Row(Ts(2, 10, 0), <<>>, "Alpha", "M", "ECE", "Gita", Ev_B, "T2")

\* A line of nine fields under the header of eight: K1's fields and one more.
BadLine == [bad |-> TRUE, row |-> K1, extra |-> "X"]

Lines == {Good(K1), Good(K2), Good(K3), Good(K4), Good(K5),
          Good(D1), Good(D2), Good(D3), Good(D4), BadLine}

SmallContents == UNION {[1..n -> Lines] : n \in 0..MaxRows}

\* A file of many colleges: college i (and degree i) on Reps[i] rows, all for
\* event A, laid out round by round so that first-seen order is C01, C02, ...
BigColleges == <<"C01", "C02", "C03", "C04", "C05", "C06", "C07", "C08", "C09",
                 "C10", "C11", "C12">>
BigDegrees == <<"D01", "D02", "D03", "D04", "D05", "D06", "D07", "D08", "D09",
                "D10", "D11", "D12">>
BigReps == <<1, 1, 2, 3, 4, 5, 6, 7, 8, 9, 10, 11>>

BigRow(i) ==
    Row(Ts(1, 10, 0), <<"2">>, BigColleges[i], "F", BigDegrees[i], "Asha", <<"A">>, "T1")

RECURSIVE BigRound(_, _)
BigRound(r, i) ==
    IF i > Len(BigReps) THEN <<>>
    ELSE (IF BigReps[i] >= r THEN <<Good(BigRow(i))>> ELSE <<>>) \o BigRound(r, i + 1)

RECURSIVE BigLines(_)
BigLines(r) == IF r > 11 THEN <<>> ELSE BigRound(r, 1) \o BigLines(r + 1)

Columns == <<"Created At", "Year of Study", "College Name", "Gender", "Degree",
             "First Name", "Registered Events", "Teams">>

Header(b) == [i \in DOMAIN Columns |-> [bom |-> b /\ i = 1, name |-> Columns[i]]]

File(b, ls) == [kind |-> "csv", header |-> Header(b), lines |-> ls]
\* No file chosen / a file with no text at all (read_csv raises EmptyDataError).
NoFile == [kind |-> "none", header |-> <<>>, lines |-> <<>>]
BlankFile == [kind |-> "csv", header |-> <<>>, lines |-> <<>>]

Uploads ==
    {NoFile, BlankFile}
      \cup {File(FALSE, ls) : ls \in SmallContents}
      \cup {File(TRUE, ls) : ls \in {c \in SmallContents : Len(c) <= MaxBomRows}}
      \cup {File(FALSE, BigLines(1))}

(***************************************************************************)
(* Sidebar                                                                 *)
(***************************************************************************)
Column(t, f) == [i \in DOMAIN t |-> t[i][f]]

\* Series.unique(): the values in order of first appearance.
RECURSIVE unique(_)
unique(col) ==
    IF col = <<>> THEN <<>>
    ELSE <<Head(col)>> \o unique(SelectSeq(Tail(col), LAMBDA v : v # Head(col)))

Range(s) == {s[i] : i \in DOMAIN s}

\* sorted(df['College Name'].dropna().unique()), as the set of options.
college_list(t) == Range(Column(t, "CollegeName")) \ {NULL}

\* sorted(df['Year of Study Cleaned'].unique()), as the set of options.
year_list(t) == Range(Column(t, "YearOfStudyCleaned"))

SetMin(S) == CHOOSE x \in S : \A y \in S : x <= y
SetMax(S) == CHOOSE x \in S : \A y \in S : x >= y

min_date(t) == SetMin(Range(Column(t, "RegistrationDate")))
max_date(t) == SetMax(Range(Column(t, "RegistrationDate")))

\* What a multiselect can return: the options less the ones the user removed.
Multiselect(options) ==
    {options \ D : D \in {X \in SUBSET options : Cardinality(X) <= MaxDeselect}}

\* What the range date_input can return: a range within [lo, hi], or only its
\* start while the user is still picking the end.
DateInput(lo, hi) ==
    {p \in (lo..hi) \X (lo..hi) : p[1] <= p[2]} \cup {<<s>> : s \in lo..hi}

\* The boolean-indexed subset of df.
\* A filter whose end date is exclusive.
FilterRows_exclusive_end(t, colleges, years, start_date, end_date) ==
    SelectSeq(t, LAMBDA r :
        /\ r.CollegeName \in colleges
        /\ r.YearOfStudyCleaned \in years
        /\ r.RegistrationDate >= start_date
        /\ r.RegistrationDate < end_date)

FilterRows(t, colleges, years, start_date, end_date) ==
    SelectSeq(t, LAMBDA r :
        /\ r.CollegeName \in colleges
        /\ r.YearOfStudyCleaned \in years
        /\ r.RegistrationDate >= start_date
        /\ r.RegistrationDate <= end_date)


(***************************************************************************)
(* Counting: value_counts, mode, nlargest, groupby                         *)
(***************************************************************************)
\* Series.dropna() on a text column.
dropna(col) == SelectSeq(col, LAMBDA v : v # NULL)

\* How often each value occurs in a column that holds no NaN.
Counts(col) == [k \in Range(col) |-> Cardinality({i \in DOMAIN col : col[i] = k})]

SetMaxCount(keys, cnt) == SetMax({cnt[k] : k \in keys})

\* Every arrangement of keys by non-increasing count.  value_counts() sorts the
\* counts with sort_values(ascending=False), whose default sort (quicksort) is not
\* stable: the order of keys with equal counts depends on the numpy build.
RECURSIVE DescOrders(_, _)
DescOrders(keys, cnt) ==
    IF keys = {} THEN {<<>>}
    ELSE LET m == SetMaxCount(keys, cnt)
             top == {k \in keys : cnt[k] = m}
         IN UNION {{<<k>> \o rest : rest \in DescOrders(keys \ {k}, cnt)} : k \in top}

\* Series.value_counts() of a text column (NaN dropped): the tables it can return,
\* each a sequence of (key, count) in non-increasing order of count.
value_counts(col) ==
    LET cnt == Counts(dropna(col))
    IN {[i \in DOMAIN o |-> [key |-> o[i], count |-> cnt[o[i]]]] :
            o \in DescOrders(DOMAIN cnt, cnt)}

\* Index of the first entry of vc with the largest count.
FirstLargest(vc) ==
    CHOOSE i \in DOMAIN vc :
        /\ \A j \in DOMAIN vc : vc[j].count <= vc[i].count
        /\ \A j \in 1..(i - 1) : vc[j].count < vc[i].count

RemoveAt(s, i) == SubSeq(s, 1, i - 1) \o SubSeq(s, i + 1, Len(s))

\* Series.nlargest(n) (keep='first'): the n largest counts, largest first, entries
\* with equal counts in the order they have in vc.
\* A view without the nlargest cut.
nlargest_all(vc, n) == vc

RECURSIVE nlargest(_, _)
nlargest(vc, n) ==
    IF n = 0 \/ vc = <<>> THEN <<>>
    ELSE LET i == FirstLargest(vc)
         IN <<vc[i]>> \o nlargest(RemoveAt(vc, i), n - 1)

\* Python's order of the college names that occur, smallest first.
PyStrOrder == <<"Alpha">> \o BigColleges \o <<"Zeta">>

StrRank(x) == CHOOSE i \in DOMAIN PyStrOrder : PyStrOrder[i] = x

\* Series.mode(): the most frequent values (NaN dropped), sorted.
RECURSIVE SortedNames(_)
SortedNames(S) ==
    IF S = {} THEN <<>>
    ELSE LET x == CHOOSE a \in S : \A b \in S : StrRank(a) <= StrRank(b)
         IN <<x>> \o SortedNames(S \ {x})

\* A mode that lists the most frequent values in order of first appearance.
mode_first_seen(col) ==
    LET cnt == Counts(dropna(col))
    IN SelectSeq(unique(dropna(col)), LAMBDA k : cnt[k] = SetMaxCount(DOMAIN cnt, cnt))

mode(col) ==
    LET cnt == Counts(dropna(col))
    IN SortedNames({k \in DOMAIN cnt : cnt[k] = SetMaxCount(DOMAIN cnt, cnt)})

RECURSIVE SortedInts(_)
SortedInts(S) ==
    IF S = {} THEN <<>> ELSE <<SetMin(S)>> \o SortedInts(S \ {SetMin(S)})

\* groupby('Registration Date').size().reset_index(name='Count'): groups in
\* ascending order of the date.
groupby_date_size(t) ==
    LET cnt == Counts(Column(t, "RegistrationDate"))
        ds == SortedInts(DOMAIN cnt)
    IN [i \in DOMAIN ds |-> [Date |-> ds[i], Count |-> cnt[ds[i]]]]

\* df_filtered.dropna(subset=['First Name', 'College Name', 'Gender'])
completed_profiles(t) ==
    SelectSeq(t, LAMBDA r : r.FirstName # NULL /\ r.CollegeName # NULL /\ r.Gender # NULL)

(***************************************************************************)
(* Event analytics                                                         *)
(***************************************************************************)
SemiPos(s) ==
    IF \E i \in 1..Len(s) : s[i] = ";"
    THEN CHOOSE i \in 1..Len(s) : s[i] = ";" /\ \A j \in 1..(i - 1) : s[j] # ";"
    ELSE 0

\* str.split(';')
RECURSIVE str_split(_)
str_split(s) ==
    IF SemiPos(s) = 0 THEN <<s>>
    ELSE <<SubSeq(s, 1, SemiPos(s) - 1)>> \o str_split(SubSeq(s, SemiPos(s) + 1, Len(s)))

RECURSIVE lstrip(_)
lstrip(s) == IF s # <<>> /\ Head(s) = " " THEN lstrip(Tail(s)) ELSE s

RECURSIVE rstrip(_)
rstrip(s) ==
    IF s # <<>> /\ s[Len(s)] = " " THEN rstrip(SubSeq(s, 1, Len(s) - 1)) ELSE s

\* str.strip()
\* An explode without the str.strip().
str_strip_none(s) == s

str_strip(s) == rstrip(lstrip(s))

\* df_filtered.dropna(subset=['Registered Events']) with the column split.
events_split(t) ==
    LET have == SelectSeq(t, LAMBDA r : r.RegisteredEvents # <<>>)
    IN [i \in DOMAIN have |-> [have[i] EXCEPT !.RegisteredEvents = str_split(@)]]

\* DataFrame.explode: one copy of the row per element of its list, in order.
explode(t) ==
    Flatten([i \in DOMAIN t |->
        [j \in DOMAIN t[i].RegisteredEvents |->
            [t[i] EXCEPT !.RegisteredEvents = t[i].RegisteredEvents[j]]]])

strip_events(t) == [i \in DOMAIN t |-> [t[i] EXCEPT !.RegisteredEvents = str_strip(@)]]

\* Lines 142-145: split, explode, strip.
explode_events(t) == strip_events(explode(events_split(t)))

\* events_exploded['Registered Events'].value_counts().reset_index(), as the set
\* of its rows (the event names are never NaN here).
event_value_counts(ex) ==
    LET cnt == Counts(Column(ex, "RegisteredEvents"))
    IN {[Event |-> e, Count |-> cnt[e]] : e \in DOMAIN cnt}

\* Series.nunique() of the teams of some rows: NaN is not counted.
\* A nunique that counts the missing value as a team.
nunique_with_nan(teams) == Cardinality(Range(teams))

nunique(teams) == Cardinality(Range(teams) \ {NULL})

\* events_exploded.groupby('Registered Events')['Teams'].nunique().reset_index()
unique_teams(ex) ==
    {[Event |-> e,
      Teams |-> nunique(Column(SelectSeq(ex, LAMBDA r : r.RegisteredEvents = e), "Teams"))] :
        e \in Range(unique(Column(ex, "RegisteredEvents")))}

\* sorted(events_exploded['Registered Events'].unique()), as the set of options.
event_list(ex) == Range(unique(Column(ex, "RegisteredEvents")))

\* pd.merge(total_participants, unique_teams, on='Event', how='left') followed by
\* fillna(0): one row per pair of matching rows, and a row with 0 teams for a
\* left row that matches nothing.
merge_left(tp, ut) ==
    {[Event |-> l.Event, TotalParticipants |-> l.Count, NumberOfUniqueTeams |-> r.Teams] :
        <<l, r>> \in {p \in tp \X ut : p[1].Event = p[2].Event}}
      \cup {[Event |-> l.Event, TotalParticipants |-> l.Count, NumberOfUniqueTeams |-> 0] :
        l \in {x \in tp : \A r \in ut : r.Event # x.Event}}

\* The rows of the exploded table for one event.
event_specific(ex, e) == SelectSeq(ex, LAMBDA r : r.RegisteredEvents = e)

(***************************************************************************)
(* Export                                                                  *)
(***************************************************************************)
NoCsv == [header |-> <<>>, rows |-> <<>>]

\* df.to_csv(index=False): a header row, then one line per row, no index column.
to_csv(t) ==
    [header |-> Columns \o <<"Registration Date", "Year of Study Cleaned">>,
     rows |-> [i \in DOMAIN t |->
        <<t[i].CreatedAt, t[i].YearOfStudy, t[i].CollegeName, t[i].Gender,
          t[i].Degree, t[i].FirstName, t[i].RegisteredEvents, t[i].Teams,
          t[i].RegistrationDate, t[i].YearOfStudyCleaned>>]]


(***************************************************************************)
(* The script run                                                          *)
(***************************************************************************)
NoKpi == [total |-> 0, completed |-> 0, top_college |-> NULL, delta |-> 0]
NoRaw == [columns |-> <<>>, rows |-> <<>>]

Init ==
    /\ pc = "start"
    /\ message = ""
    /\ uploaded_file \in Uploads
    /\ df_raw = NoRaw
    /\ df = <<>>
    /\ selected_colleges = {}
    /\ selected_years = {}
    /\ selected_date_range = <<>>
    /\ df_filtered = <<>>
    /\ df_completed = <<>>
    /\ kpi = NoKpi
    /\ daily_registrations = <<>>
    /\ college_counts = <<>>
    /\ year_counts = <<>>
    /\ gender_counts = <<>>
    /\ degree_counts = <<>>
    /\ events_exploded = <<>>
    /\ event_counts = {}
    /\ event_summary_df = {}
    /\ selected_event = <<>>
    /\ college_interest = <<>>
    /\ csv = NoCsv
    /\ rendered = {}

\* Ends the run: st.stop() after a message, or an exception nothing catches.
Halt(to, msg) == pc' = to /\ message' = msg

\* Lines 38-40: no file chosen.
NoUpload ==
    /\ pc = "start"
    /\ uploaded_file.kind = "none"
    /\ Halt("stopped", "info")
    /\ UNCHANGED <<uploaded_file, df_raw, df, selected_colleges, selected_years,
                   selected_date_range, df_filtered, kpi, daily_registrations,
                   college_counts, year_counts, gender_counts, degree_counts,
                   events_exploded, event_counts, event_summary_df, selected_event,
                   college_interest, csv, df_completed, rendered>>

\* Lines 42-48, 53-55: read_csv raises on a file without a header line.
ReadCsvError ==
    /\ pc = "start"
    /\ uploaded_file.kind = "csv"
    /\ uploaded_file.header = <<>>
    /\ Halt("stopped", "error_read")
    /\ UNCHANGED <<uploaded_file, df_raw, df, selected_colleges, selected_years,
                   selected_date_range, df_filtered, kpi, daily_registrations,
                   college_counts, year_counts, gender_counts, degree_counts,
                   events_exploded, event_counts, event_summary_df, selected_event,
                   college_interest, csv, df_completed, rendered>>

\* Lines 45-48: the file is parsed and the header cleaned.
ReadCsv ==
    /\ pc = "start"
    /\ uploaded_file.kind = "csv"
    /\ uploaded_file.header # <<>>
    /\ df_raw' = [columns |-> strip_bom(uploaded_file.header),
                  rows |-> read_csv(uploaded_file)]
    /\ pc' = "read"
    /\ UNCHANGED <<message, uploaded_file, df, selected_colleges, selected_years,
                   selected_date_range, df_filtered, kpi, daily_registrations,
                   college_counts, year_counts, gender_counts, degree_counts,
                   events_exploded, event_counts, event_summary_df, selected_event,
                   college_interest, csv, df_completed, rendered>>

\* Lines 49-51: a table without rows.
EmptyCsv ==
    /\ pc = "read"
    /\ df_raw.rows = <<>>
    /\ Halt("stopped", "error_empty")
    /\ UNCHANGED <<uploaded_file, df_raw, df, selected_colleges, selected_years,
                   selected_date_range, df_filtered, kpi, daily_registrations,
                   college_counts, year_counts, gender_counts, degree_counts,
                   events_exploded, event_counts, event_summary_df, selected_event,
                   college_interest, csv, df_completed, rendered>>

\* Line 52: df = preprocess_data(df_raw.copy()).
Preprocess ==
    /\ pc = "read"
    /\ df_raw.rows # <<>>
    /\ df' = preprocess_data(df_raw.rows)
    /\ pc' = "sidebar"
    /\ UNCHANGED <<message, uploaded_file, df_raw, selected_colleges, selected_years,
                   selected_date_range, df_filtered, kpi, daily_registrations,
                   college_counts, year_counts, gender_counts, degree_counts,
                   events_exploded, event_counts, event_summary_df, selected_event,
                   college_interest, csv, df_completed, rendered>>

\* Lines 63-64: with no row left, min() and max() are NaN, which date_input
\* rejects with an exception.
DateInputError ==
    /\ pc = "sidebar"
    /\ df = <<>>
    /\ Halt("raised", "exception")
    /\ UNCHANGED <<uploaded_file, df_raw, df, selected_colleges, selected_years,
                   selected_date_range, df_filtered, kpi, daily_registrations,
                   college_counts, year_counts, gender_counts, degree_counts,
                   events_exploded, event_counts, event_summary_df, selected_event,
                   college_interest, csv, df_completed, rendered>>

\* Lines 58-64: the three sidebar widgets return the user's selection.
Sidebar ==
    /\ pc = "sidebar"
    /\ df # <<>>
    /\ selected_colleges' \in Multiselect(college_list(df))
    /\ selected_years' \in Multiselect(year_list(df))
    /\ selected_date_range' \in DateInput(min_date(df), max_date(df))
    /\ pc' = "selected"
    /\ UNCHANGED <<message, uploaded_file, df_raw, df, df_filtered, kpi,
                   daily_registrations, college_counts, year_counts, gender_counts,
                   degree_counts, events_exploded, event_counts, event_summary_df,
                   selected_event, college_interest, csv, df_completed, rendered>>

\* Line 66: unpacking a one-date tuple into (start_date, end_date) raises ValueError.
UnpackError ==
    /\ pc = "selected"
    /\ Len(selected_date_range) # 2
    /\ Halt("raised", "exception")
    /\ UNCHANGED <<uploaded_file, df_raw, df, selected_colleges, selected_years,
                   selected_date_range, df_filtered, kpi, daily_registrations,
                   college_counts, year_counts, gender_counts, degree_counts,
                   events_exploded, event_counts, event_summary_df, selected_event,
                   college_interest, csv, df_completed, rendered>>

\* Lines 66-72.
Filter ==
    /\ pc = "selected"
    /\ Len(selected_date_range) = 2
    /\ df_filtered' = FilterRows(df, selected_colleges, selected_years,
                                 selected_date_range[1], selected_date_range[2])
    /\ pc' = "filtered"
    /\ UNCHANGED <<message, uploaded_file, df_raw, df, selected_colleges,
                   selected_years, selected_date_range, kpi, daily_registrations,
                   college_counts, year_counts, gender_counts, degree_counts,
                   events_exploded, event_counts, event_summary_df, selected_event,
                   college_interest, csv, df_completed, rendered>>

\* Lines 74-76.
\* An empty filtered set that is warned about without st.stop().
NoMatch_without_stop ==
    /\ pc = "filtered"
    /\ df_filtered = <<>>
    /\ Halt("tab1", "warning_no_match")
    /\ rendered' = rendered \cup {"kpi1", "kpi2"}
    /\ UNCHANGED <<uploaded_file, df_raw, df, selected_colleges, selected_years,
                   selected_date_range, df_filtered, kpi, daily_registrations,
                   college_counts, year_counts, gender_counts, degree_counts,
                   events_exploded, event_counts, event_summary_df, selected_event,
                   college_interest, csv, df_completed>>

NoMatch ==
    /\ pc = "filtered"
    /\ df_filtered = <<>>
    /\ Halt("stopped", "warning_no_match")
    /\ UNCHANGED <<uploaded_file, df_raw, df, selected_colleges, selected_years,
                   selected_date_range, df_filtered, kpi, daily_registrations,
                   college_counts, year_counts, gender_counts, degree_counts,
                   events_exploded, event_counts, event_summary_df, selected_event,
                   college_interest, csv, df_completed, rendered>>

\* Lines 81-85: the three metrics.
KeyMetrics ==
    /\ pc = "filtered"
    /\ df_filtered # <<>>
    /\ df_completed' = completed_profiles(df_filtered)
    /\ mode(Column(df_completed', "CollegeName")) # <<>>
    /\ \E vc \in value_counts(Column(df_completed', "CollegeName")) :
          kpi' = [total |-> Len(df_filtered), completed |-> Len(df_completed'),
                  top_college |-> mode(Column(df_completed', "CollegeName"))[1],
                  delta |-> vc[1].count]
    /\ rendered' = rendered \cup {"kpi1", "kpi2", "kpi3"}
    /\ pc' = "tab1"
    /\ UNCHANGED <<message, uploaded_file, df_raw, df, selected_colleges,
                   selected_years, selected_date_range, df_filtered,
                   daily_registrations, college_counts, year_counts, gender_counts,
                   degree_counts, events_exploded, event_counts, event_summary_df,
                   selected_event, college_interest, csv>>

\* Line 85 with no completed profile: mode() is empty and mode()[0] raises, after
\* the first two metrics were drawn.
KeyMetricsError ==
    /\ pc = "filtered"
    /\ df_filtered # <<>>
    /\ df_completed' = completed_profiles(df_filtered)
    /\ mode(Column(df_completed', "CollegeName")) = <<>>
    /\ kpi' = [NoKpi EXCEPT !.total = Len(df_filtered), !.completed = Len(df_completed')]
    /\ rendered' = rendered \cup {"kpi1", "kpi2"}
    /\ Halt("raised", "exception")
    /\ UNCHANGED <<uploaded_file, df_raw, df, selected_colleges, selected_years,
                   selected_date_range, df_filtered, daily_registrations,
                   college_counts, year_counts, gender_counts, degree_counts,
                   events_exploded, event_counts, event_summary_df, selected_event,
                   college_interest, csv>>

\* Lines 91-110.
Timeline ==
    /\ pc = "tab1"
    /\ daily_registrations' = groupby_date_size(df_filtered)
    /\ rendered' = rendered \cup {"timeline"}
    /\ pc' = "tab2"
    /\ UNCHANGED <<message, uploaded_file, df_raw, df, selected_colleges,
                   selected_years, selected_date_range, df_filtered, kpi,
                   college_counts, year_counts, gender_counts, degree_counts,
                   events_exploded, event_counts, event_summary_df, selected_event,
                   college_interest, csv, df_completed>>

\* Lines 112-137.
Demographics ==
    /\ pc = "tab2"
    /\ \E vc \in value_counts(Column(df_completed, "CollegeName")) :
          college_counts' = nlargest(vc, TopN)
    /\ year_counts' = Counts(Column(df_filtered, "YearOfStudyCleaned"))
    /\ gender_counts' = Counts(dropna(Column(df_completed, "Gender")))
    /\ \E vc \in value_counts(Column(df_completed, "Degree")) :
          degree_counts' = nlargest(vc, TopN)
    /\ rendered' = rendered \cup {"top_colleges", "year_pie", "gender_donut", "top_degrees"}
    /\ pc' = "tab3"
    /\ UNCHANGED <<message, uploaded_file, df_raw, df, selected_colleges,
                   selected_years, selected_date_range, df_filtered, kpi,
                   daily_registrations, events_exploded, event_counts,
                   event_summary_df, selected_event, college_interest, csv,
                   df_completed>>

\* The dtype read_csv gives 'Registered Events': float64 when every field of the
\* column is empty, object otherwise.
events_column_is_text(raw) ==
    {i \in DOMAIN raw.rows : raw.rows[i].RegisteredEvents # <<>>} # {}

\* Lines 142-143: the .str accessor of a float64 column raises AttributeError.
StrAccessorError ==
    /\ pc = "tab3"
    /\ ~events_column_is_text(df_raw)
    /\ Halt("raised", "exception")
    /\ UNCHANGED <<uploaded_file, df_raw, df, selected_colleges, selected_years,
                   selected_date_range, df_filtered, kpi, daily_registrations,
                   college_counts, year_counts, gender_counts, degree_counts,
                   events_exploded, event_counts, event_summary_df, selected_event,
                   college_interest, csv, df_completed, rendered>>

\* Lines 140-148: no row of the selection names an event.
NoEvents ==
    /\ pc = "tab3"
    /\ events_column_is_text(df_raw)
    /\ events_exploded' = explode_events(df_filtered)
    /\ events_exploded' = <<>>
    /\ rendered' = rendered \cup {"no_events_warning"}
    /\ pc' = "tab4"
    /\ UNCHANGED <<message, uploaded_file, df_raw, df, selected_colleges,
                   selected_years, selected_date_range, df_filtered, kpi,
                   daily_registrations, college_counts, year_counts, gender_counts,
                   degree_counts, event_counts, event_summary_df, selected_event,
                   college_interest, csv, df_completed>>

\* Lines 140-225.  The drill-down chart is drawn only for a non-empty event name
\* (if selected_event:).
EventAnalytics ==
    /\ pc = "tab3"
    /\ events_column_is_text(df_raw)
    /\ events_exploded' = explode_events(df_filtered)
    /\ events_exploded' # <<>>
    /\ event_counts' = event_value_counts(events_exploded')
    /\ event_summary_df' =
          merge_left(event_value_counts(events_exploded'), unique_teams(events_exploded'))
    /\ \E e \in event_list(events_exploded') :
          /\ selected_event' = <<e>>
          /\ IF e # <<>>
             THEN /\ \E vc \in value_counts(
                          Column(event_specific(events_exploded', e), "CollegeName")) :
                        college_interest' = nlargest(vc, TopN)
                  /\ rendered' = rendered \cup {"event_popularity", "event_summary",
                                                "drilldown"}
             ELSE /\ college_interest' = <<>>
                  /\ rendered' = rendered \cup {"event_popularity", "event_summary"}
    /\ pc' = "tab4"
    /\ UNCHANGED <<message, uploaded_file, df_raw, df, selected_colleges,
                   selected_years, selected_date_range, df_filtered, kpi,
                   daily_registrations, college_counts, year_counts, gender_counts,
                   degree_counts, csv, df_completed>>

\* Lines 227-236.
Export ==
    /\ pc = "tab4"
    /\ csv' = to_csv(df_filtered)
    /\ rendered' = rendered \cup {"full_data", "download"}
    /\ pc' = "done"
    /\ UNCHANGED <<message, uploaded_file, df_raw, df, selected_colleges,
                   selected_years, selected_date_range, df_filtered, kpi,
                   daily_registrations, college_counts, year_counts, gender_counts,
                   degree_counts, events_exploded, event_counts, event_summary_df,
                   selected_event, college_interest, df_completed>>

Next ==
    \/ NoUpload
    \/ ReadCsvError
    \/ ReadCsv
    \/ EmptyCsv
    \/ Preprocess
    \/ DateInputError
    \/ Sidebar
    \/ UnpackError
    \/ Filter
    \/ NoMatch
    \/ KeyMetrics
    \/ KeyMetricsError
    \/ Timeline
    \/ Demographics
    \/ StrAccessorError
    \/ NoEvents
    \/ EventAnalytics
    \/ Export

Spec == Init /\ [][Next]_vars


(***************************************************************************)
(* Properties                                                              *)
(***************************************************************************)
\* preprocess_data has returned.
Normalized == pc \notin {"start", "read"} /\ df_raw.rows # <<>>

\* The boolean index of line 67 has been evaluated.
Filtered == pc \notin {"start", "read", "sidebar", "selected"} /\ Len(selected_date_range) = 2

\* The key metrics step has ended, one way or the other.
MetricsStepOver == Filtered /\ pc # "filtered" /\ df_filtered # <<>>

\* Tab 3 has computed its tables.
EventsDone == pc \in {"tab4", "done"}

Occurrences(col, v) == Cardinality({i \in DOMAIN col : col[i] = v})

\* The year texts of the uploads that are numbers.
NumericYearTexts == {<<"2">>, <<"3">>, <<"2", ".", "5">>, <<"0">>}

\* The raw rows normalisation has to keep: a timestamp and a numeric year.
Derivable(r) == r.CreatedAt.kind = "ts" /\ r.YearOfStudy \in NumericYearTexts

\* C1: every normalized record has a calendar date and a year label, and the
\* normalized records are exactly the raw records whose 'Created At' and 'Year
\* of Study' both parse: the others are removed, not kept with a null field.
C1_NormalizedRecordsComplete ==
    Normalized =>
        /\ \A i \in DOMAIN df :
              /\ df[i].CreatedAt # NaT
              /\ df[i].RegistrationDate = df[i].CreatedAt \div 24
              /\ df[i].RegistrationDate >= 0
              /\ Len(df[i].YearOfStudyCleaned) > 0
        /\ Len(df) = Cardinality({i \in DOMAIN df_raw.rows : Derivable(df_raw.rows[i])})
        /\ LET kept == SelectSeq(df_raw.rows, Derivable)
           IN \A i \in DOMAIN df :
                 /\ df[i].YearOfStudy = kept[i].YearOfStudy
                 /\ df[i].FirstName = kept[i].FirstName

\* Three rows, exactly one with an unparseable 'Created At', give two records.
C1_Witness ==
    /\ pc = "sidebar"
    /\ Len(df_raw.rows) = 3
    /\ Cardinality({i \in 1..3 : df_raw.rows[i].CreatedAt.kind = "garbage"}) = 1
    /\ \A i \in 1..3 : df_raw.rows[i].YearOfStudy \in NumericYearTexts
    /\ \A i \in 1..3 : df_raw.rows[i].CreatedAt.kind # "missing"
    /\ Len(df) = 2

\* The rows of df the selection describes, in the order of df.
Selected(r) ==
    /\ r.CollegeName \in selected_colleges
    /\ r.YearOfStudyCleaned \in selected_years
    /\ selected_date_range[1] <= r.RegistrationDate
    /\ r.RegistrationDate <= selected_date_range[2]

\* C2: the filtered set is exactly the records whose college is selected and
\* whose year label is selected and whose date lies in the range, both bounds
\* included; no record failing one of the three predicates is in it.
C2_FilterIsConjunction ==
    Filtered =>
        LET idx == SortedInts({i \in DOMAIN df : Selected(df[i])})
        IN /\ Len(df_filtered) = Len(idx)
           /\ \A k \in DOMAIN df_filtered : df_filtered[k] = df[idx[k]]
           /\ \A k \in DOMAIN df_filtered :
                 /\ df_filtered[k].CollegeName \in selected_colleges
                 /\ df_filtered[k].YearOfStudyCleaned \in selected_years
                 /\ df_filtered[k].RegistrationDate \in
                        selected_date_range[1]..selected_date_range[2]

\* A proper range whose two end dates both carry a kept record, with a record of
\* df left out.
C2_Witness ==
    /\ Filtered
    /\ selected_date_range[1] < selected_date_range[2]
    /\ \E k \in DOMAIN df_filtered : df_filtered[k].RegistrationDate = selected_date_range[1]
    /\ \E k \in DOMAIN df_filtered : df_filtered[k].RegistrationDate = selected_date_range[2]
    /\ Len(df_filtered) < Len(df)

\* C3: when the date control returns a single date d, the run goes on without
\* an error and the filtered set is the selected records dated d.
C3_SingleDateIsOneDay ==
    (Len(selected_date_range) = 1 /\ pc # "selected") =>
        /\ message # "exception"
        /\ df_filtered = FilterRows(df, selected_colleges, selected_years,
                                    selected_date_range[1], selected_date_range[1])

\* C4: a run whose filtered set is empty shows the no-match warning, not an
\* error, and stops: no metric, no view and no export is produced.
C4_EmptyFilterStops ==
    (Filtered /\ df_filtered = <<>>) =>
        /\ pc \in {"filtered", "stopped"}
        /\ pc = "stopped" => message = "warning_no_match"
        /\ message \notin {"error_read", "error_empty", "exception"}
        /\ rendered = {}
        /\ kpi = NoKpi
        /\ daily_registrations = <<>> /\ college_counts = <<>> /\ degree_counts = <<>>
        /\ events_exploded = <<>> /\ event_summary_df = {}
        /\ csv = NoCsv

\* The warning was shown for a table that has rows.
C4_Witness == pc = "stopped" /\ message = "warning_no_match" /\ df # <<>>

CompletedColleges == Column(df_completed, "CollegeName")

\* The college of the completed profiles with the largest count that occurs first.
FirstSeenTop ==
    LET col == CompletedColleges
        i == CHOOSE j \in DOMAIN col :
                /\ \A k \in DOMAIN col : Occurrences(col, col[k]) <= Occurrences(col, col[j])
                /\ \A k \in 1..(j - 1) : Occurrences(col, col[k]) < Occurrences(col, col[j])
    IN col[i]

\* C5 as stated: the top college is the most frequent one, ties going to the
\* college seen first, the count shown is its count.
C5_TopCollegeFirstSeen ==
    "kpi3" \in rendered =>
        /\ kpi.top_college = FirstSeenTop
        /\ kpi.delta = Occurrences(CompletedColleges, kpi.top_college)

\* C5 as amended: the top college has the largest count among the completed
\* profiles, the count shown is its count, and among the colleges with that
\* count it is the smallest name in string order.
C5_TopCollegeSmallestName ==
    "kpi3" \in rendered =>
        /\ kpi.top_college # NULL
        /\ kpi.delta = Occurrences(CompletedColleges, kpi.top_college)
        /\ \A i \in DOMAIN CompletedColleges :
              LET c == CompletedColleges[i] IN
              /\ Occurrences(CompletedColleges, c) <= kpi.delta
              /\ Occurrences(CompletedColleges, c) = kpi.delta =>
                    StrRank(kpi.top_college) <= StrRank(c)

\* Two colleges tie and the one reported is not the one seen first.
C5_Witness ==
    /\ "kpi3" \in rendered
    /\ kpi.top_college # FirstSeenTop
    /\ Occurrences(CompletedColleges, FirstSeenTop) = kpi.delta


FirstIndex(col, v) == CHOOSE i \in DOMAIN col : col[i] = v /\ \A j \in 1..(i - 1) : col[j] # v

Keys(view) == {view[i].key : i \in DOMAIN view}

\* view lists at most TopN categories of col with their counts, largest count
\* first, and leaves out no category with a larger count than the last listed.
TopNOf(view, col) ==
    /\ Len(view) <= TopN
    /\ \A i \in DOMAIN view :
          /\ view[i].key # NULL
          /\ view[i].count = Occurrences(col, view[i].key)
          /\ view[i].count > 0
    /\ \A i, j \in DOMAIN view : i < j => view[i].key # view[j].key
    /\ \A i, j \in DOMAIN view : i < j => view[i].count >= view[j].count
    /\ \A k \in Range(col) \ ({NULL} \cup Keys(view)) :
          /\ view # <<>>
          /\ Occurrences(col, k) <= view[Len(view)].count

\* Categories with equal counts stand in the order in which col first shows
\* them, among the listed ones and between the last listed and the omitted.
TiesFirstSeen(view, col) ==
    /\ \A i, j \in DOMAIN view :
          (i < j /\ view[i].count = view[j].count) =>
              FirstIndex(col, view[i].key) < FirstIndex(col, view[j].key)
    /\ \A k \in Range(col) \ ({NULL} \cup Keys(view)) :
          \A i \in DOMAIN view :
              view[i].count = Occurrences(col, k) =>
                  FirstIndex(col, view[i].key) < FirstIndex(col, k)

DrilldownColleges == Column(event_specific(events_exploded, selected_event[1]), "CollegeName")

\* C6 as stated: each Top-N view (colleges, degrees, drill-down colleges) has at
\* most 10 entries with the right counts, in descending order of count with
\* equal counts in first-seen order, and omits no category with a larger count.
C6_TopNFirstSeen ==
    /\ "top_colleges" \in rendered =>
          TopNOf(college_counts, CompletedColleges)
            /\ TiesFirstSeen(college_counts, CompletedColleges)
    /\ "top_degrees" \in rendered =>
          TopNOf(degree_counts, Column(df_completed, "Degree"))
            /\ TiesFirstSeen(degree_counts, Column(df_completed, "Degree"))
    /\ "drilldown" \in rendered =>
          TopNOf(college_interest, DrilldownColleges)
            /\ TiesFirstSeen(college_interest, DrilldownColleges)

\* C6 as amended: each Top-N view has at most 10 entries, one per category, with
\* the right counts, in non-increasing order of count, and omits no category
\* with a larger count than the smallest listed; the order of equal counts is
\* not fixed.
C6_TopNDescending ==
    /\ "top_colleges" \in rendered => TopNOf(college_counts, CompletedColleges)
    /\ "top_degrees" \in rendered => TopNOf(degree_counts, Column(df_completed, "Degree"))
    /\ "drilldown" \in rendered => TopNOf(college_interest, DrilldownColleges)

\* All three views are cut to 10 entries, with a tie at the cut in each.
C6_Witness ==
    /\ pc = "done"
    /\ "drilldown" \in rendered
    /\ Len(college_counts) = TopN /\ Len(degree_counts) = TopN /\ Len(college_interest) = TopN
    /\ Cardinality(Range(CompletedColleges)) > TopN
    /\ Cardinality(Range(Column(df_completed, "Degree"))) > TopN
    /\ Cardinality(Range(DrilldownColleges)) > TopN
    /\ \E k \in Range(CompletedColleges) \ Keys(college_counts) :
          Occurrences(CompletedColleges, k) = college_counts[TopN].count

\* The segments str.split(';') and str.strip() have to give for each event text
\* of the uploads.
ExpectedSegments(ev) ==
    CASE ev = Ev_ABA -> <<<<"A">>, <<"B">>, <<"A">>>>
      [] ev = Ev_B -> <<<<"B">>>>
      [] ev = Ev_C_ -> <<<<"C">>, <<>>>>
      [] ev = <<"A">> -> <<<<"A">>>>
      [] ev = <<>> -> <<>>

RECURSIVE ExpectedEntries(_)
ExpectedEntries(t) ==
    IF t = <<>> THEN <<>>
    ELSE LET segs == ExpectedSegments(Head(t).RegisteredEvents)
         IN [j \in DOMAIN segs |-> [FirstName |-> Head(t).FirstName, Event |-> segs[j]]]
              \o ExpectedEntries(Tail(t))

RECURSIVE SumCounts(_)
SumCounts(S) ==
    IF S = {} THEN 0
    ELSE LET x == CHOOSE y \in S : TRUE IN x.Count + SumCounts(S \ {x})

EventNames == Column(events_exploded, "RegisteredEvents")

\* C7: the exploded entries are, record by record and in order, the trimmed
\* semicolon-separated segments of 'Registered Events', repeated names kept,
\* and the per-event counts add up to the number of exploded entries.
C7_ExplodedEntries ==
    EventsDone =>
        /\ [i \in DOMAIN events_exploded |->
              [FirstName |-> events_exploded[i].FirstName,
               Event |-> events_exploded[i].RegisteredEvents]] = ExpectedEntries(df_filtered)
        /\ \A r \in event_counts : r.Count = Occurrences(EventNames, r.Event)
        /\ {r.Event : r \in event_counts} = Range(EventNames)
        /\ SumCounts(event_counts) = Len(events_exploded)

\* "A;B; A" alone gives the entries A, B, A, and A is counted twice.
C7_Witness ==
    /\ EventsDone
    /\ Len(df_filtered) = 1
    /\ df_filtered[1].RegisteredEvents = Ev_ABA
    /\ EventNames = <<<<"A">>, <<"B">>, <<"A">>>>
    /\ [Event |-> <<"A">>, Count |-> 2] \in event_counts

\* C8: a record is kept only if its year text is an integer, its label is that
\* integer, a positive one, and every record with an integer year is kept.
C8_YearIsIntegerText ==
    Normalized =>
        /\ \A i \in DOMAIN df :
              /\ IsDigits(df[i].YearOfStudy)
              /\ IsDigits(df[i].YearOfStudyCleaned)
              /\ DigitsVal(df[i].YearOfStudyCleaned) = DigitsVal(df[i].YearOfStudy)
              /\ DigitsVal(df[i].YearOfStudyCleaned) > 0
        /\ Len(df) = Cardinality({i \in DOMAIN df_raw.rows :
                                    /\ df_raw.rows[i].CreatedAt.kind = "ts"
                                    /\ IsDigits(df_raw.rows[i].YearOfStudy)})

EntriesOf(e) == {i \in DOMAIN events_exploded : events_exploded[i].RegisteredEvents = e}

\* C9: the event/team summary has exactly one row per event of the exploded
\* entries, with the number of its entries and the number of distinct team
\* identifiers among them, a missing team not counted: 0 when all are missing.
C9_EventTeamSummary ==
    (EventsDone /\ events_exploded # <<>>) =>
        /\ \A e \in Range(EventNames) :
              /\ Cardinality({r \in event_summary_df : r.Event = e}) = 1
              /\ \A r \in event_summary_df :
                    r.Event = e =>
                        /\ r.TotalParticipants = Cardinality(EntriesOf(e))
                        /\ r.NumberOfUniqueTeams =
                              Cardinality({events_exploded[i].Teams : i \in EntriesOf(e)} \ {NULL})
        /\ \A r \in event_summary_df : r.Event \in Range(EventNames)

\* One event has no team at all, another has two teams, a third has more
\* participants than teams.
C9_Witness ==
    /\ EventsDone
    /\ \E r \in event_summary_df : r.NumberOfUniqueTeams = 0 /\ r.Event = <<"C">>
    /\ \E r \in event_summary_df : r.NumberOfUniqueTeams = 2
    /\ \E r \in event_summary_df :
          r.NumberOfUniqueTeams > 0 /\ r.TotalParticipants > r.NumberOfUniqueTeams

\* C10: with a non-empty filtered set the key metrics step raises no error and
\* draws all three metrics.
C10_MetricsNeverRaise ==
    MetricsStepOver =>
        /\ {"kpi1", "kpi2", "kpi3"} \subseteq rendered
        /\ ~(pc = "raised" /\ rendered = {"kpi1", "kpi2"})

=============================================================================
